---- MODULE Spec2Model ----
(***************************************************************************)
(* Model of the Lua doc-comment extractor of src/src/file_parser.rs:       *)
(* the line scanner (remove_annotation), the tag parser (create_docblock), *)
(* the signature classifier (extract_owner_object, is_member_function)     *)
(* the per-file driver (LuaFileParser::parse) and the Markdown renderer    *)
(* (MarkdownFormatter::format_block).                                      *)
(*                                                                         *)
(* A Rust String is modelled as a sequence of one-character strings.       *)
(* Indices keep the source's zero-based convention: At(s, i) is s[i] and   *)
(* Slice(s, a, b) is &s[a..b].  Option<T> is <<>> (None) or <<x>> (Some).  *)
(* A character that a TLA+ string cannot hold is the element "U+XXXX".     *)
(***************************************************************************)
EXTENDS Integers, Sequences, FiniteSets, TLC

VARIABLES
    lines,                        \* parse: the lines read from the file so far
    line_buf,                     \* parse: line_buf
    doc_blocks,                   \* parse: doc_blocks
    real_code_line,               \* parse: real_code_line
    is_mutli_line_function_decl,  \* parse: is_mutli_line_function_decl
    pc,                           \* position of the running function
    sc,                           \* remove_annotation: its locals
    scan_result,                  \* remove_annotation: the returned String
    sig,                          \* classifier: the signature under classification
    cls,                          \* classifier: what the classifier returned
    buf,                          \* create_docblock: its argument
    doc,                          \* create_docblock: the returned DocBlock
    fblock,                       \* format_block: its argument
    rendered                      \* format_block: the returned String

vars == <<lines, line_buf, doc_blocks, real_code_line,
          is_mutli_line_function_decl, pc, sc, scan_result, sig, cls, buf, doc,
          fblock, rendered>>

parseVars == <<lines, line_buf, doc_blocks, real_code_line,
               is_mutli_line_function_decl>>
scanVars == <<sc, scan_result>>
classVars == <<sig, cls>>
docVars == <<buf, doc>>
fmtVars == <<fblock, rendered>>

(***************************************************************************)
(* Bounds of the model.                                                    *)
(***************************************************************************)
\* longest file, in lines
MaxLines == 4
\* longest scanner input, in lexical pieces
MaxParts == 4
\* longest comment run handed to create_docblock
MaxBuf == 4
\* longest scanner input written character by character
MaxChars == 4

(***************************************************************************)
(* Option and string primitives (std).                                     *)
(***************************************************************************)
None == <<>>
Some(x) == <<x>>
IsSome(o) == o # <<>>
Unwrap(o) == o[1]

Min(S) == CHOOSE x \in S : \A y \in S : x <= y
Max(S) == CHOOSE x \in S : \A y \in S : x >= y

At(s, i) == s[i + 1]
Slice(s, a, b) == SubSeq(s, a + 1, b)
SliceFrom(s, a) == SubSeq(s, a + 1, Len(s))

\* char::is_whitespace: the characters with the Unicode property White_Space.
\* Those a TLA+ string cannot hold are written as the element "U+XXXX".
WhitespaceChars ==
    {" ", "\t", "\n", "\r", "\f", "U+000B", "U+0085", "U+00A0", "U+1680",
     "U+2000", "U+2001", "U+2002", "U+2003", "U+2004", "U+2005", "U+2006",
     "U+2007", "U+2008", "U+2009", "U+200A", "U+2028", "U+2029", "U+202F",
     "U+205F", "U+3000"}
IsWhitespace(c) == c \in WhitespaceChars

StartsWith(s, p) == Len(s) >= Len(p) /\ SubSeq(s, 1, Len(p)) = p
EndsWith(s, p) == Len(s) >= Len(p) /\ SubSeq(s, Len(s) - Len(p) + 1, Len(s)) = p

\* the index of the first character of s in the set cs, as str::find gives it
FindIn(s, cs) ==
    LET hits == {k \in 0..(Len(s) - 1) : At(s, k) \in cs}
    IN  IF hits = {} THEN None ELSE Some(Min(hits))
\* the index of the first character of s outside the set cs
FindNotIn(s, cs) ==
    LET hits == {k \in 0..(Len(s) - 1) : At(s, k) \notin cs}
    IN  IF hits = {} THEN None ELSE Some(Min(hits))
FindChar(s, c) == FindIn(s, {c})
ContainsChar(s, c) == \E k \in 1..Len(s) : s[k] = c

TrimStart(s) ==
    LET first == FindNotIn(s, WhitespaceChars)
    IN  IF IsSome(first) THEN SliceFrom(s, Unwrap(first)) ELSE <<>>
TrimEnd(s) ==
    LET keep == {k \in 1..Len(s) : ~IsWhitespace(s[k])}
    IN  IF keep = {} THEN <<>> ELSE SubSeq(s, 1, Max(keep))
Trim(s) == TrimEnd(TrimStart(s))
\* str::trim_start_matches(c)
TrimStartMatches(s, c) ==
    LET first == FindNotIn(s, {c})
    IN  IF IsSome(first) THEN SliceFrom(s, Unwrap(first)) ELSE <<>>

\* str::splitn(2, char::is_whitespace)
SplitN2(s) ==
    LET k == FindIn(s, WhitespaceChars)
    IN  IF IsSome(k)
        THEN <<Slice(s, 0, Unwrap(k)), SliceFrom(s, Unwrap(k) + 1)>>
        ELSE <<s>>

RECURSIVE SplitWhitespace(_)
SplitWhitespace(s) ==
    LET t == TrimStart(s)
        k == FindIn(t, WhitespaceChars)
    IN  IF t = <<>> THEN <<>>
        ELSE IF IsSome(k)
             THEN <<Slice(t, 0, Unwrap(k))>> \o SplitWhitespace(SliceFrom(t, Unwrap(k)))
             ELSE <<t>>

RECURSIVE SplitChar(_, _)
SplitChar(s, c) ==
    LET k == FindChar(s, c)
    IN  IF IsSome(k)
        THEN <<Slice(s, 0, Unwrap(k))>> \o SplitChar(SliceFrom(s, Unwrap(k) + 1), c)
        ELSE <<s>>

RECURSIVE Join(_, _)
Join(parts, sep) ==
    IF parts = <<>> THEN <<>>
    ELSE IF Len(parts) = 1 THEN parts[1]
    ELSE parts[1] \o sep \o Join(Tail(parts), sep)

RECURSIVE Concat(_)
Concat(parts) == IF parts = <<>> THEN <<>> ELSE parts[1] \o Concat(Tail(parts))

(***************************************************************************)
(* Line scanner: LuaFileParser::remove_annotation.                         *)
(***************************************************************************)
\* while j < n && chars[j] == '=' { eq += 1; j += 1; }   (returns the final j)
RECURSIVE SkipEq(_, _)
SkipEq(chars, j) ==
    IF j < Len(chars) /\ At(chars, j) = "="
    THEN SkipEq(chars, j + 1)
    ELSE j

\* FindCloser with the level test (eq2 == eq) left out
RECURSIVE FindCloser_AnyLevel(_, _, _)
FindCloser_AnyLevel(chars, k, eq) ==
    LET n == Len(chars)
        m == SkipEq(chars, k + 1)
    IN  IF ~(k < n) THEN None
        ELSE IF At(chars, k) = "]" /\ m < n /\ At(chars, m) = "]"
             THEN Some(m)
             ELSE FindCloser_AnyLevel(chars, k + 1, eq)

\* the search loop (while k < n) for the closer of a block comment of level eq:
\* Some(m), the index of the closer's last ']', or None
RECURSIVE FindCloser(_, _, _)
FindCloser(chars, k, eq) ==
    LET n == Len(chars)
        m == SkipEq(chars, k + 1)
        eq2 == m - (k + 1)
    IN  IF ~(k < n) THEN None
        ELSE IF At(chars, k) = "]" /\ eq2 = eq /\ m < n /\ At(chars, m) = "]"
             THEN Some(m)
             ELSE FindCloser(chars, k + 1, eq)

\* the locals of remove_annotation before the loop
ScanInit(line) ==
    [chars |-> line, i |-> 0, out |-> <<>>, in_squote |-> FALSE,
     in_dquote |-> FALSE, in_longstring_level |-> None, stopped |-> FALSE]

\* the body of: if in_squote
ScanInSquote(st) ==
    LET chars == st.chars
        n == Len(chars)
        i == st.i
        c == At(chars, i)
    IN  IF c = "\\"
        THEN IF i + 1 < n
             THEN [st EXCEPT !.out = st.out \o <<c, At(chars, i + 1)>>, !.i = i + 2]
             ELSE [st EXCEPT !.out = Append(st.out, c), !.i = i + 1]
        ELSE IF c = "'"
             THEN [st EXCEPT !.out = Append(st.out, c), !.i = i + 1,
                             !.in_squote = FALSE]
             ELSE [st EXCEPT !.out = Append(st.out, c), !.i = i + 1]

\* the body of: if in_dquote
ScanInDquote(st) ==
    LET chars == st.chars
        n == Len(chars)
        i == st.i
        c == At(chars, i)
    IN  IF c = "\\"
        THEN IF i + 1 < n
             THEN [st EXCEPT !.out = st.out \o <<c, At(chars, i + 1)>>, !.i = i + 2]
             ELSE [st EXCEPT !.out = Append(st.out, c), !.i = i + 1]
        ELSE IF c = "\""
             THEN [st EXCEPT !.out = Append(st.out, c), !.i = i + 1,
                             !.in_dquote = FALSE]
             ELSE [st EXCEPT !.out = Append(st.out, c), !.i = i + 1]

\* ScanInLongString with the level test (eq == level) left out
ScanInLongString_AnyLevel(st) ==
    LET chars == st.chars
        n == Len(chars)
        i == st.i
        j == SkipEq(chars, i + 1)
    IN  IF At(chars, i) = "]" /\ j < n /\ At(chars, j) = "]"
        THEN [st EXCEPT !.out = st.out \o Slice(chars, i, j + 1), !.i = j + 1,
                        !.in_longstring_level = None]
        ELSE [st EXCEPT !.out = Append(st.out, At(chars, i)), !.i = i + 1]

\* the body of: if let Some(level) = in_longstring_level
ScanInLongString(st) ==
    LET chars == st.chars
        n == Len(chars)
        i == st.i
        level == Unwrap(st.in_longstring_level)
        j == SkipEq(chars, i + 1)
        eq == j - (i + 1)
    IN  IF At(chars, i) = "]" /\ eq = level /\ j < n /\ At(chars, j) = "]"
        THEN [st EXCEPT !.out = st.out \o Slice(chars, i, j + 1), !.i = j + 1,
                        !.in_longstring_level = None]
        ELSE [st EXCEPT !.out = Append(st.out, At(chars, i)), !.i = i + 1]

\* ScanComment resuming on the closer's last ']' (i = endpos) instead of after it
ScanComment_OnCloser(st) ==
    LET chars == st.chars
        n == Len(chars)
        i == st.i
        j == SkipEq(chars, i + 3)
        eq == j - (i + 3)
        found == FindCloser(chars, j + 1, eq)
    IN  IF i + 2 < n /\ At(chars, i + 2) = "["
        THEN IF j < n /\ At(chars, j) = "["
             THEN IF IsSome(found)
                  THEN [st EXCEPT !.i = Unwrap(found)]
                  ELSE [st EXCEPT !.stopped = TRUE]
             ELSE [st EXCEPT !.stopped = TRUE]
        ELSE [st EXCEPT !.stopped = TRUE]

\* the comment branch: if c == '-' && i + 1 < n && chars[i + 1] == '-'
ScanComment(st) ==
    LET chars == st.chars
        n == Len(chars)
        i == st.i
        j == SkipEq(chars, i + 3)
        eq == j - (i + 3)
        found == FindCloser(chars, j + 1, eq)
    IN  IF i + 2 < n /\ At(chars, i + 2) = "["
        THEN IF j < n /\ At(chars, j) = "["
             THEN IF IsSome(found)
                  THEN [st EXCEPT !.i = Unwrap(found) + 1]
                  ELSE [st EXCEPT !.stopped = TRUE]
             ELSE [st EXCEPT !.stopped = TRUE]
        ELSE [st EXCEPT !.stopped = TRUE]

\* ScanNormal without the branch that opens a single-quoted string
ScanNormal_NoSquote(st) ==
    LET chars == st.chars
        n == Len(chars)
        i == st.i
        c == At(chars, i)
        j == SkipEq(chars, i + 1)
        eq == j - (i + 1)
    IN  IF c = "\""
        THEN [st EXCEPT !.in_dquote = TRUE, !.out = Append(st.out, c), !.i = i + 1]
        ELSE IF c = "[" /\ j < n /\ At(chars, j) = "["
        THEN [st EXCEPT !.in_longstring_level = Some(eq),
                        !.out = st.out \o Slice(chars, i, j + 1), !.i = j + 1]
        ELSE IF c = "-" /\ i + 1 < n /\ At(chars, i + 1) = "-"
        THEN ScanComment(st)
        ELSE [st EXCEPT !.out = Append(st.out, c), !.i = i + 1]

\* ScanNormal with the position left on an opening single quote
ScanNormal_QuoteStays(st) ==
    LET chars == st.chars
        n == Len(chars)
        i == st.i
        c == At(chars, i)
        j == SkipEq(chars, i + 1)
        eq == j - (i + 1)
    IN  IF c = "'"
        THEN [st EXCEPT !.in_squote = TRUE, !.out = Append(st.out, c)]
        ELSE IF c = "\""
        THEN [st EXCEPT !.in_dquote = TRUE, !.out = Append(st.out, c), !.i = i + 1]
        ELSE IF c = "[" /\ j < n /\ At(chars, j) = "["
        THEN [st EXCEPT !.in_longstring_level = Some(eq),
                        !.out = st.out \o Slice(chars, i, j + 1), !.i = j + 1]
        ELSE IF c = "-" /\ i + 1 < n /\ At(chars, i + 1) = "-"
        THEN ScanComment(st)
        ELSE [st EXCEPT !.out = Append(st.out, c), !.i = i + 1]

\* the rest of the loop body, reached outside quotes and long strings
ScanNormal(st) ==
    LET chars == st.chars
        n == Len(chars)
        i == st.i
        c == At(chars, i)
        j == SkipEq(chars, i + 1)
        eq == j - (i + 1)
    IN  IF c = "'"
        THEN [st EXCEPT !.in_squote = TRUE, !.out = Append(st.out, c), !.i = i + 1]
        ELSE IF c = "\""
        THEN [st EXCEPT !.in_dquote = TRUE, !.out = Append(st.out, c), !.i = i + 1]
        ELSE IF c = "[" /\ j < n /\ At(chars, j) = "["
        THEN [st EXCEPT !.in_longstring_level = Some(eq),
                        !.out = st.out \o Slice(chars, i, j + 1), !.i = j + 1]
        ELSE IF c = "-" /\ i + 1 < n /\ At(chars, i + 1) = "-"
        THEN ScanComment(st)
        ELSE [st EXCEPT !.out = Append(st.out, c), !.i = i + 1]

\* the loop condition, with a break recorded in stopped
ScanRunning(st) == st.i < Len(st.chars) /\ ~st.stopped

\* one iteration of: while i < n
ScanStep(st) ==
    IF st.in_squote THEN ScanInSquote(st)
    ELSE IF st.in_dquote THEN ScanInDquote(st)
    ELSE IF IsSome(st.in_longstring_level) THEN ScanInLongString(st)
    ELSE ScanNormal(st)

RECURSIVE ScanLoop(_)
ScanLoop(st) == IF ScanRunning(st) THEN ScanLoop(ScanStep(st)) ELSE st

\* out.trim_start().trim_end().to_string()
ScanReturn(st) == TrimEnd(TrimStart(st.out))

RemoveAnnotation(line) == ScanReturn(ScanLoop(ScanInit(line)))

(***************************************************************************)
(* Signature classifier: extract_owner_object, is_member_function.         *)
(***************************************************************************)
\* the closure |c| c == '.' || c == ':'
OwnerSeparators == {".", ":"}

ExtractOwnerObject(line0) ==
    LET line == Trim(line0)
        s == TrimStart(SliceFrom(line, 8))
        idx == FindIn(s, OwnerSeparators)
    IN  IF StartsWith(line, <<"l","o","c","a","l"," ","f","u","n","c","t","i","o","n">>) THEN <<"l","o","c","a","l">>
        ELSE IF StartsWith(line, <<"f","u","n","c","t","i","o","n">>)
             THEN IF IsSome(idx) THEN Trim(Slice(s, 0, Unwrap(idx))) ELSE <<>>
             ELSE <<>>

\* is_member_function with the first-parameter comparison negated
IsMemberFunction_Negated(line, obj_name) ==
    LET dot_idx == FindChar(line, ".")
        left_bracket_idx == FindChar(line, "(")
        right_bracket_idx == FindChar(line, ")")
        sub_params_list == Slice(line, Unwrap(left_bracket_idx), Unwrap(right_bracket_idx))
        first_comma_idx == FindChar(sub_params_list, ",")
        first_param == Trim(Slice(sub_params_list, 1, Unwrap(first_comma_idx)))
    IN  IF ~IsSome(FindChar(line, ":"))
        THEN IF IsSome(dot_idx)
             THEN IF ~IsSome(left_bracket_idx) \/ ~IsSome(right_bracket_idx)
                  THEN [panic |-> TRUE, value |-> FALSE]
                  ELSE IF Unwrap(left_bracket_idx) > Unwrap(right_bracket_idx)
                  THEN [panic |-> TRUE, value |-> FALSE]
                  ELSE IF IsSome(first_comma_idx)
                  THEN [panic |-> FALSE, value |-> first_param # obj_name]
                  ELSE [panic |-> FALSE,
                        value |-> Len(Trim(sub_params_list)) > 0
                                  /\ sub_params_list = obj_name]
             ELSE [panic |-> FALSE, value |-> FALSE]
        ELSE [panic |-> FALSE, value |-> TRUE]

\* is_member_function: [panic |-> the call panics (unwrap of None, or a slice
\* whose start is past its end), value |-> the bool it returns otherwise]
IsMemberFunction(line, obj_name) ==
    LET dot_idx == FindChar(line, ".")
        left_bracket_idx == FindChar(line, "(")
        right_bracket_idx == FindChar(line, ")")
        sub_params_list == Slice(line, Unwrap(left_bracket_idx), Unwrap(right_bracket_idx))
        first_comma_idx == FindChar(sub_params_list, ",")
        first_param == Trim(Slice(sub_params_list, 1, Unwrap(first_comma_idx)))
    IN  IF ~IsSome(FindChar(line, ":"))
        THEN IF IsSome(dot_idx)
             THEN IF ~IsSome(left_bracket_idx) \/ ~IsSome(right_bracket_idx)
                  THEN [panic |-> TRUE, value |-> FALSE]
                  ELSE IF Unwrap(left_bracket_idx) > Unwrap(right_bracket_idx)
                  THEN [panic |-> TRUE, value |-> FALSE]
                  ELSE IF IsSome(first_comma_idx)
                  THEN [panic |-> FALSE, value |-> first_param = obj_name]
                  ELSE [panic |-> FALSE,
                        value |-> Len(Trim(sub_params_list)) > 0
                                  /\ sub_params_list = obj_name]
             ELSE [panic |-> FALSE, value |-> FALSE]
        ELSE [panic |-> FALSE, value |-> TRUE]

(***************************************************************************)
(* Tag parser: LuaFileParser::create_docblock.                             *)
(***************************************************************************)
\* the DocBlock literal the function starts from
EmptyDocBlock ==
    [signature |-> <<>>, brief |-> <<>>, note |-> <<>>, includes |-> <<>>,
     parameters |-> <<>>, descriptions |-> <<>>, ret_value |-> None,
     owner_object |-> <<>>, is_local |-> FALSE, is_member |-> FALSE]

\* let content = ...: the line from its first '@', else from its first '\',
\* else without its leading dashes
DocContent(line) ==
    LET at == FindChar(line, "@")
        bs == FindChar(line, "\\")
        t == TrimStart(line)
    IN  IF IsSome(at) THEN SliceFrom(line, Unwrap(at))
        ELSE IF IsSome(bs) THEN SliceFrom(line, Unwrap(bs))
        ELSE IF StartsWith(t, <<"-","-">>) THEN Trim(TrimStartMatches(t, "-"))
        ELSE t

\* parts[0][1..]: the tag or sub-tag without its '@' or '\'
DocTag(content) == SliceFrom(SplitN2(content)[1], 1)
\* if parts.len() > 1 { parts[1].trim() } else { "" }
DocBody(content) ==
    LET parts == SplitN2(content)
    IN  IF Len(parts) > 1 THEN Trim(parts[2]) ELSE <<>>

\* the arm "param" with the description taken from p_parts[1..]
DocParam_TypeInDescription(block, body) ==
    LET p_parts == SplitWhitespace(body)
    IN  IF Len(p_parts) >= 2
        THEN [block EXCEPT !.parameters = Append(block.parameters,
                 [name |-> p_parts[1], type_name |-> p_parts[2],
                  number |-> Len(block.parameters),
                  description |-> Join(SubSeq(p_parts, 2, Len(p_parts)), <<" ">>)])]
        ELSE block

\* the arm "param" numbering after the push (number = len + 1)
DocParam_OneBased(block, body) ==
    LET p_parts == SplitWhitespace(body)
    IN  IF Len(p_parts) >= 2
        THEN [block EXCEPT !.parameters = Append(block.parameters,
                 [name |-> p_parts[1], type_name |-> p_parts[2],
                  number |-> Len(block.parameters) + 1,
                  description |-> Join(SubSeq(p_parts, 3, Len(p_parts)), <<" ">>)])]
        ELSE block

\* the arm "param"
DocParam(block, body) ==
    LET p_parts == SplitWhitespace(body)
    IN  IF Len(p_parts) >= 2
        THEN [block EXCEPT !.parameters = Append(block.parameters,
                 [name |-> p_parts[1], type_name |-> p_parts[2],
                  number |-> Len(block.parameters),
                  description |-> Join(SubSeq(p_parts, 3, Len(p_parts)), <<" ">>)])]
        ELSE block

\* the arm "return"
DocReturn(block, body) ==
    LET p_parts == SplitWhitespace(body)
    IN  IF p_parts # <<>>
        THEN [block EXCEPT !.ret_value = Some(
                 [name |-> <<>>, type_name |-> p_parts[1], number |-> 0,
                  description |-> Join(SubSeq(p_parts, 2, Len(p_parts)), <<" ">>)])]
        ELSE block

\* the arm "includes"
DocIncludes(block, body) ==
    LET pieces == SplitChar(body, ",")
    IN  [block EXCEPT !.includes =
             block.includes \o [k \in 1..Len(pieces) |-> Trim(pieces[k])]]

\* match tag
DocMainTag(block, tag, body) ==
    IF tag = <<"b","r","i","e","f">> THEN [block EXCEPT !.brief = body]
    ELSE IF tag = <<"p","a","r","a","m">> THEN DocParam(block, body)
    ELSE IF tag = <<"r","e","t","u","r","n">> THEN DocReturn(block, body)
    ELSE IF tag = <<"i","n","c","l","u","d","e","s">> THEN DocIncludes(block, body)
    ELSE IF tag = <<"n","o","t","e">> THEN [block EXCEPT !.note = body]
    ELSE block

\* let desc_type = match subtag
DocDescType(subtag, body) ==
    IF subtag = <<"t","e","x","t">> THEN Some([kind |-> "Text", body |-> body])
    ELSE IF subtag = <<"c","o","d","e">> THEN Some([kind |-> "Code", lang |-> "None", body |-> body])
    ELSE IF subtag = <<"f","o","r","m","u","l","a">>
         THEN Some([kind |-> "MathFormula", ftype |-> "Inline", body |-> body])
    ELSE IF subtag = <<"l","i","s","t">> THEN Some([kind |-> "BulletList", level |-> 0, body |-> body])
    ELSE IF subtag = <<"h","t","m","l">> THEN Some([kind |-> "HTMLLink", body |-> body])
    ELSE None

\* the arm for a sub-tag line without the test of current_tag
DocSubTag_AnyMode(block, current_tag, content) ==
    LET desc_type == DocDescType(DocTag(content), DocBody(content))
    IN  IF IsSome(desc_type)
        THEN [block EXCEPT !.descriptions = Append(block.descriptions,
                 [dtype |-> Unwrap(desc_type), content |-> DocBody(content)])]
        ELSE block

\* the arm for a sub-tag line
DocSubTag(block, current_tag, content) ==
    LET desc_type == DocDescType(DocTag(content), DocBody(content))
    IN  IF current_tag = <<"d","e","s","c","r","i","p","t","i","o","n">> /\ IsSome(desc_type)
        THEN [block EXCEPT !.descriptions = Append(block.descriptions,
                 [dtype |-> Unwrap(desc_type), content |-> DocBody(content)])]
        ELSE block

\* one iteration of for line in buf, on [block, current_tag]
DocLine(st, line) ==
    LET content == DocContent(line)
    IN  IF StartsWith(content, <<"@">>)
        THEN [block |-> DocMainTag(st.block, DocTag(content), DocBody(content)),
              current_tag |-> DocTag(content)]
        ELSE IF StartsWith(content, <<"\\">>)
        THEN [block |-> DocSubTag(st.block, st.current_tag, content),
              current_tag |-> st.current_tag]
        ELSE st

RECURSIVE DocLoop(_, _)
DocLoop(st, rest) ==
    IF rest = <<>> THEN st ELSE DocLoop(DocLine(st, rest[1]), Tail(rest))

CreateDocblock(b) ==
    DocLoop([block |-> EmptyDocBlock, current_tag |-> <<>>], b).block

(***************************************************************************)
(* Per-file driver: is_space_line, the line predicates and                 *)
(* LuaFileParser::parse.                                                   *)
(***************************************************************************)
IsSpaceLine(line) == \A k \in 1..Len(line) : IsWhitespace(line[k])

IsApiTail(line) == EndsWith(line, <<")">>) \/ EndsWith(TrimEnd(line), <<"e","n","d">>)

IsDocComment(line) ==
    LET t == TrimStart(line)
    IN  StartsWith(t, <<"-","-","-","@">>) \/ StartsWith(t, <<"-","-","@">>) \/ StartsWith(t, <<"-","-"," ","@">>)

\* let is_comment = l.trim_start().starts_with("--")
IsComment(l) == StartsWith(TrimStart(l), <<"-","-">>)

\* variant of IsCollected: every comment line is collected
IsCollected_AnyComment(l) == IsDocComment(l) \/ IsComment(l)

\* the condition under which parse pushes the line to line_buf
IsCollected(l) == IsDocComment(l) \/ (line_buf # <<>> /\ IsComment(l))

\* the condition of the branch "starts a function definition"
IsFunctionStart(code_content) ==
    \/ StartsWith(TrimStart(code_content), <<"f","u","n","c","t","i","o","n">>)
    \/ StartsWith(TrimStart(code_content), <<"l","o","c","a","l"," ","f","u","n","c","t","i","o","n">>)

\* the classification without the reset of owner_object for a local function
ClassifyInto_KeepOwner(block, real) ==
    LET m_ret == ExtractOwnerObject(real)
    IN  IF m_ret = <<"l","o","c","a","l">>
        THEN [block EXCEPT !.signature = real, !.is_local = TRUE,
                           !.is_member = FALSE, !.owner_object = m_ret]
        ELSE [block EXCEPT !.signature = real, !.owner_object = m_ret,
                           !.is_member = IsMemberFunction(real, m_ret).value]

\* the classification written into a block: signature, owner_object, is_local,
\* is_member (the same statements in both finalizing branches)
ClassifyInto(block, real) ==
    LET m_ret == ExtractOwnerObject(real)
    IN  IF m_ret = <<"l","o","c","a","l">>
        THEN [block EXCEPT !.signature = real, !.is_local = TRUE,
                           !.is_member = FALSE, !.owner_object = <<>>]
        ELSE [block EXCEPT !.signature = real, !.owner_object = m_ret,
                           !.is_member = IsMemberFunction(real, m_ret).value]

\* whether that classification panics inside is_member_function
ClassifyPanics(real) ==
    LET m_ret == ExtractOwnerObject(real)
    IN  m_ret # <<"l","o","c","a","l">> /\ IsMemberFunction(real, m_ret).panic

\* Finalize without the test of line_buf: a block for every finished declaration
Finalize_Always(lb, blocks, real) ==
    IF ClassifyPanics(real)
    THEN [pc |-> "panic", doc_blocks |-> blocks, line_buf |-> lb,
          real_code_line |-> real]
    ELSE [pc |-> "reading",
          doc_blocks |-> Append(blocks, ClassifyInto(CreateDocblock(lb), real)),
          line_buf |-> <<>>, real_code_line |-> <<>>]

\* if !line_buf.is_empty() { ... } followed by real_code_line.clear(), on the
\* signature real: the values of pc, doc_blocks, line_buf, real_code_line after it
Finalize(lb, blocks, real) ==
    IF lb # <<>>
    THEN IF ClassifyPanics(real)
         THEN [pc |-> "panic", doc_blocks |-> blocks, line_buf |-> lb,
               real_code_line |-> real]
         ELSE [pc |-> "reading",
               doc_blocks |-> Append(blocks, ClassifyInto(CreateDocblock(lb), real)),
               line_buf |-> <<>>, real_code_line |-> <<>>]
    ELSE [pc |-> "reading", doc_blocks |-> blocks, line_buf |-> lb,
          real_code_line |-> <<>>]

\* the lines a file is made of (the last one holds a form feed only)
LinePool ==
    { <<"-","-"," ","@","b","r","i","e","f"," ","X">>, <<"-","-"," ","n","o","t","e">>, <<>>, <<"f","u","n","c","t","i","o","n"," ","f","(",")"," ","e","n","d">>, <<"f","u","n","c","t","i","o","n"," ","f","(",")">>,
      <<"l","o","c","a","l"," ","f","u","n","c","t","i","o","n"," ","g","(","x",")">>, <<"f","u","n","c","t","i","o","n"," ","A",".","b"," ","e","n","d">>, <<"f","u","n","c","t","i","o","n"," ","f","(","a",",">>, <<"b",")"," ","-","-"," ","c">>,
      <<"x"," ","="," ","1">>, <<"f","u","n","c","t","i","o","n"," ","A",":","m","(","a",","," ","b",")">>, <<"f","u","n","c","t","i","o","n"," ","f">>, <<"t",":","m","(","1",")">>, <<"\f">> }

\* let code_content = LuaFileParser::remove_annotation(&l), for each line of the pool
CodeContent == [l \in LinePool |-> RemoveAnnotation(l)]

Init ==
    /\ lines = <<>>
    /\ line_buf = <<>>
    /\ doc_blocks = <<>>
    /\ real_code_line = <<>>
    /\ is_mutli_line_function_decl = FALSE
    /\ pc = "reading"
    /\ sc = ScanInit(<<>>)
    /\ scan_result = None
    /\ sig = <<>>
    /\ cls = None
    /\ buf = <<>>
    /\ doc = None
    /\ fblock = EmptyDocBlock
    /\ rendered = None

\* the loop reads one more line
ReadLine(l) ==
    /\ pc = "reading"
    /\ Len(lines) < MaxLines
    /\ lines' = Append(lines, l)
    /\ UNCHANGED <<scanVars, classVars, docVars, fmtVars>>

\* a documentation line, or a comment line while the buffer is non-empty
CollectDocLine(l) ==
    /\ ReadLine(l)
    /\ IsCollected(l)
    /\ line_buf' = Append(line_buf, l)
    /\ UNCHANGED <<doc_blocks, real_code_line, is_mutli_line_function_decl, pc>>

\* variant of BlankLine: the buffer is kept
BlankLine_KeepBuffer(l) ==
    /\ ReadLine(l)
    /\ ~IsCollected(l)
    /\ IsSpaceLine(l)
    /\ real_code_line' = <<>>
    /\ UNCHANGED <<line_buf, doc_blocks, is_mutli_line_function_decl, pc>>

\* a blank line
BlankLine(l) ==
    /\ ReadLine(l)
    /\ ~IsCollected(l)
    /\ IsSpaceLine(l)
    /\ line_buf' = <<>>
    /\ real_code_line' = <<>>
    /\ UNCHANGED <<doc_blocks, is_mutli_line_function_decl, pc>>

\* variant of OpenMultilineDecl: the line is accumulated without setting the flag
OpenMultilineDecl_NoFlag(l) ==
    LET code_content == CodeContent[l]
    IN  /\ ReadLine(l)
        /\ ~IsCollected(l)
        /\ ~IsSpaceLine(l)
        /\ IsFunctionStart(code_content)
        /\ ContainsChar(code_content, "(") /\ ~EndsWith(code_content, <<")">>)
        /\ real_code_line' = real_code_line \o code_content
        /\ UNCHANGED <<line_buf, doc_blocks, is_mutli_line_function_decl, pc>>

\* a function line with '(' that does not end with ')'
OpenMultilineDecl(l) ==
    LET code_content == CodeContent[l]
    IN  /\ ReadLine(l)
        /\ ~IsCollected(l)
        /\ ~IsSpaceLine(l)
        /\ IsFunctionStart(code_content)
        /\ ContainsChar(code_content, "(") /\ ~EndsWith(code_content, <<")">>)
        /\ is_mutli_line_function_decl' = TRUE
        /\ real_code_line' = real_code_line \o code_content
        /\ UNCHANGED <<line_buf, doc_blocks, pc>>

\* a function line that ends the declaration
SingleLineDecl(l) ==
    LET code_content == CodeContent[l]
        after == Finalize(line_buf, doc_blocks, real_code_line \o code_content)
    IN  /\ ReadLine(l)
        /\ ~IsCollected(l)
        /\ ~IsSpaceLine(l)
        /\ IsFunctionStart(code_content)
        /\ ~(ContainsChar(code_content, "(") /\ ~EndsWith(code_content, <<")">>))
        /\ IsApiTail(code_content) \/ ContainsChar(code_content, ")")
        /\ pc' = after.pc
        /\ doc_blocks' = after.doc_blocks
        /\ line_buf' = after.line_buf
        /\ real_code_line' = after.real_code_line
        /\ UNCHANGED is_mutli_line_function_decl

\* a function line that neither opens nor ends a declaration
UnfinishedDecl(l) ==
    LET code_content == CodeContent[l]
    IN  /\ ReadLine(l)
        /\ ~IsCollected(l)
        /\ ~IsSpaceLine(l)
        /\ IsFunctionStart(code_content)
        /\ ~(ContainsChar(code_content, "(") /\ ~EndsWith(code_content, <<")">>))
        /\ ~(IsApiTail(code_content) \/ ContainsChar(code_content, ")"))
        /\ UNCHANGED <<line_buf, doc_blocks, real_code_line,
                       is_mutli_line_function_decl, pc>>

\* a further line of a multi-line declaration
ContinueDecl(l) ==
    LET code_content == CodeContent[l]
        real == real_code_line \o code_content
        after == Finalize(line_buf, doc_blocks, real)
    IN  /\ ReadLine(l)
        /\ ~IsCollected(l)
        /\ ~IsSpaceLine(l)
        /\ ~IsFunctionStart(code_content)
        /\ is_mutli_line_function_decl
        /\ IF IsApiTail(code_content) \/ ContainsChar(code_content, ")")
           THEN /\ is_mutli_line_function_decl' = FALSE
                /\ pc' = after.pc
                /\ doc_blocks' = after.doc_blocks
                /\ line_buf' = after.line_buf
                /\ real_code_line' = after.real_code_line
           ELSE /\ real_code_line' = real
                /\ UNCHANGED <<line_buf, doc_blocks, is_mutli_line_function_decl, pc>>

\* variant of OtherCodeLine: the buffer is kept
OtherCodeLine_KeepBuffer(l) ==
    LET code_content == CodeContent[l]
    IN  /\ ReadLine(l)
        /\ ~IsCollected(l)
        /\ ~IsSpaceLine(l)
        /\ ~IsFunctionStart(code_content)
        /\ ~is_mutli_line_function_decl
        /\ UNCHANGED <<line_buf, doc_blocks, real_code_line,
                       is_mutli_line_function_decl, pc>>

\* any other non-blank code line
OtherCodeLine(l) ==
    LET code_content == CodeContent[l]
    IN  /\ ReadLine(l)
        /\ ~IsCollected(l)
        /\ ~IsSpaceLine(l)
        /\ ~IsFunctionStart(code_content)
        /\ ~is_mutli_line_function_decl
        /\ line_buf' = <<>>
        /\ UNCHANGED <<doc_blocks, real_code_line, is_mutli_line_function_decl, pc>>

\* variant of EndOfFile: a pending documented declaration is emitted at the end
EndOfFile_Flush ==
    /\ pc = "reading"
    /\ pc' = "done"
    /\ doc_blocks' = IF line_buf # <<>> /\ real_code_line # <<>>
                     THEN Append(doc_blocks,
                                 [CreateDocblock(line_buf) EXCEPT !.signature = real_code_line])
                     ELSE doc_blocks
    /\ UNCHANGED <<lines, line_buf, real_code_line, is_mutli_line_function_decl,
                   scanVars, classVars, docVars, fmtVars>>

\* reader.lines() is exhausted: return doc_blocks
EndOfFile ==
    /\ pc = "reading"
    /\ pc' = "done"
    /\ UNCHANGED <<parseVars, scanVars, classVars, docVars, fmtVars>>

Next ==
    \/ \E l \in LinePool : CollectDocLine(l)
    \/ \E l \in LinePool : BlankLine(l)
    \/ \E l \in LinePool : OpenMultilineDecl(l)
    \/ \E l \in LinePool : SingleLineDecl(l)
    \/ \E l \in LinePool : UnfinishedDecl(l)
    \/ \E l \in LinePool : ContinueDecl(l)
    \/ \E l \in LinePool : OtherCodeLine(l)
    \/ EndOfFile

Spec == Init /\ [][Next]_vars

(***************************************************************************)
(* remove_annotation run on its own, one loop iteration per step.          *)
(***************************************************************************)
\* the lexical pieces scanner inputs are built from
ScanPieces == { <<"a">>, <<" ">>, <<"-","-">>, <<"'">>, <<"\"">>, <<"\\">>, <<"[","[">>, <<"[","=","[">>, <<"]","]">>, <<"]","=","]">> }

\* lines of the documentation and of the kinds the scanner distinguishes
ScanExamples ==
    { <<"l","o","c","a","l"," ","s"," ","="," ","'","-","-","n","o","t"," ","a"," ","c","o","m","m","e","n","t","'">>,
      <<"x"," ","="," ","1"," ","-","-","[","["," ","i","n","l","i","n","e"," ","]","]"," ","y"," ","="," ","2">>,
      <<"x"," ","="," ","1"," ","-","-"," ","t","r","a","i","l","i","n","g">>,
      <<"a"," ","-","-","[","=","["," ","b"," ","]","]"," ","c"," ","]","=","]"," ","d">>,
      <<"a"," ","-","-","[","=","["," ","b"," ","]","]"," ","c">>,
      <<"a"," ","-","-","[","["," ","b"," ","]","=","]"," ","c">>,
      <<"s"," ","="," ","\"","-","-","\""," ",".","."," ","'","\\","'","-","-","'"," ","-","-"," ","c">>,
      <<"t"," ","="," ","[","=","=","["," ","-","-"," ","]","]"," ","]","=","=","]"," ","-","-"," ","c">>,
      <<"\f","x"," ","="," ","1","\r"," ","-","-"," ","c">> }

ScanInputs ==
    ScanExamples \cup
    { Concat(ps) : ps \in UNION { [1..k -> ScanPieces] : k \in 0..MaxParts } }

InitScan ==
    /\ sc \in { ScanInit(l) : l \in ScanInputs }
    /\ scan_result = None
    /\ pc = "scan"
    /\ lines = <<>>
    /\ line_buf = <<>>
    /\ doc_blocks = <<>>
    /\ real_code_line = <<>>
    /\ is_mutli_line_function_decl = FALSE
    /\ sig = <<>>
    /\ cls = None
    /\ buf = <<>>
    /\ doc = None
    /\ fblock = EmptyDocBlock
    /\ rendered = None

\* one iteration of the while loop
ScanIterate ==
    /\ pc = "scan"
    /\ ScanRunning(sc)
    /\ sc' = ScanStep(sc)
    /\ UNCHANGED <<scan_result, pc, parseVars, classVars, docVars, fmtVars>>

\* the loop has ended: trim and return
ScanFinish ==
    /\ pc = "scan"
    /\ ~ScanRunning(sc)
    /\ scan_result' = Some(ScanReturn(sc))
    /\ pc' = "scanned"
    /\ UNCHANGED <<sc, parseVars, classVars, docVars, fmtVars>>

NextScan == ScanIterate \/ ScanFinish

SpecScan == InitScan /\ [][NextScan]_vars

\* lines written character by character, and shorter lines made of pieces
ScanChars == { <<"a">>, <<"'">>, <<"\"">>, <<"\\">>, <<"[">>, <<"=">>, <<"]">>, <<"-">> }
ScanFairInputs ==
    ScanExamples
    \cup { Concat(cs) : cs \in UNION { [1..k -> ScanChars] : k \in 0..MaxChars } }
    \cup { Concat(ps) : ps \in UNION { [1..k -> ScanPieces] : k \in 0..(MaxParts - 1) } }

InitScanFair ==
    /\ sc \in { ScanInit(l) : l \in ScanFairInputs }
    /\ scan_result = None
    /\ pc = "scan"
    /\ lines = <<>>
    /\ line_buf = <<>>
    /\ doc_blocks = <<>>
    /\ real_code_line = <<>>
    /\ is_mutli_line_function_decl = FALSE
    /\ sig = <<>>
    /\ cls = None
    /\ buf = <<>>
    /\ doc = None
    /\ fblock = EmptyDocBlock
    /\ rendered = None

\* the scan as it runs: the loop and the return are always taken when they can be
SpecScanFair == InitScanFair /\ [][NextScan]_vars /\ WF_vars(NextScan)

(***************************************************************************)
(* The classifier run on its own.                                          *)
(***************************************************************************)
SigPrefixes == { <<"f","u","n","c","t","i","o","n"," ">>, <<"l","o","c","a","l"," ","f","u","n","c","t","i","o","n"," ">>, <<"f","u","n","c","t","i","o","n">>, <<>> }
SigOwners == { <<>>, <<"O","b","j">>, <<"A">>, <<"l","o","c","a","l">> }
SigSeparators == { <<>>, <<".">>, <<":">> }
SigNames == { <<>>, <<"m","e","t","h","o","d">> }
\* parameter lists as written by ParamsText, and three that are not
SigParamLists ==
    { << >>, << <<"A">> >>, << <<"x">> >>, << <<"a">>, <<"b">> >>, << <<"A">>, <<"x">> >>, << <<"x">>, <<"A">> >>,
      << <<"O","b","j">>, <<"x">> >>, << <<".",".",".">> >> }
ParamsText(ps) == <<"(">> \o Join(ps, <<","," ">>) \o <<")">>
SigParams == { ParamsText(ps) : ps \in SigParamLists } \cup { <<>>, <<"("," ","A"," ",","," ","x",")">>, <<")","(">> }
SigSuffixes == { <<>>, <<" ","e","n","d">>, <<" ","r","e","t","u","r","n"," ","x",".","y"," ","e","n","d">> }

\* a signature, kept with the parts it is written from
SigInputs ==
    [prefix : SigPrefixes, owner : SigOwners, sep : SigSeparators,
     name : SigNames, params : SigParams, suffix : SigSuffixes]

SigText(s) == s.prefix \o s.owner \o s.sep \o s.name \o s.params \o s.suffix

InitClassify ==
    /\ sig \in SigInputs
    /\ cls = None
    /\ pc = "classify"
    /\ lines = <<>>
    /\ line_buf = <<>>
    /\ doc_blocks = <<>>
    /\ real_code_line = <<>>
    /\ is_mutli_line_function_decl = FALSE
    /\ sc = ScanInit(<<>>)
    /\ scan_result = None
    /\ buf = <<>>
    /\ doc = None
    /\ fblock = EmptyDocBlock
    /\ rendered = None

\* the classifier calls of parse on one signature: extract_owner_object, then
\* is_member_function with its result, and the block parse would emit
Classify ==
    LET text == SigText(sig)
        owner == ExtractOwnerObject(text)
    IN  /\ pc = "classify"
        /\ cls' = Some([owner_object |-> owner,
                        member |-> IsMemberFunction(text, owner),
                        block |-> IF ClassifyPanics(text) THEN None
                                  ELSE Some(ClassifyInto(EmptyDocBlock, text))])
        /\ pc' = "classified"
        /\ UNCHANGED <<sig, parseVars, scanVars, docVars, fmtVars>>

NextClassify == Classify

SpecClassify == InitClassify /\ [][NextClassify]_vars

(***************************************************************************)
(* create_docblock run on its own.                                         *)
(***************************************************************************)
\* comment lines written from their parts
BriefLine(r) == r.marker \o <<"@","b","r","i","e","f">> \o r.gap \o r.brief \o r.trail
ParamLine(r) ==
    r.marker \o <<"@","p","a","r","a","m">> \o r.gap \o Join(<<r.name, r.type_name>> \o r.words, r.gap)
ReturnLine(r) ==
    r.marker \o <<"@","r","e","t","u","r","n">> \o r.gap \o Join(<<r.type_name>> \o r.words, r.gap)

BriefForms ==
    { [marker |-> <<"-","-"," ">>, gap |-> <<" ">>, brief |-> <<"d","o","e","s"," ","a"," ","t","h","i","n","g">>, trail |-> <<>>],
      [marker |-> <<"-","-">>, gap |-> <<" "," ">>, brief |-> <<"X">>, trail |-> <<" ">>] }
ParamForms ==
    { [marker |-> <<"-","-"," ">>, gap |-> <<" ">>, name |-> <<"x">>, type_name |-> <<"n","u","m","b","e","r">>,
       words |-> << <<"t","h","e">>, <<"x">>, <<"v","a","l","u","e">> >>],
      [marker |-> <<"-","-","-">>, gap |-> <<" "," ">>, name |-> <<"y">>, type_name |-> <<"s","t","r","i","n","g">>,
       words |-> << <<"d","1">>, <<"d","2">> >>] }
ReturnForms ==
    { [marker |-> <<"-","-"," ">>, gap |-> <<" ">>, type_name |-> <<"n","u","m","b","e","r">>,
       words |-> << <<"t","h","e">>, <<"r","e","s","u","l","t">> >>] }

BriefLines == { BriefLine(r) : r \in BriefForms }
ParamLines == { ParamLine(r) : r \in ParamForms }
ReturnLines == { ReturnLine(r) : r \in ReturnForms }
\* lines that set neither brief, parameters nor ret_value
OtherDocLines ==
    { <<"-","-"," ","@","d","e","s","c","r","i","p","t","i","o","n">>, <<"-","-"," ","\\","t","e","x","t"," ","h","e","l","l","o">>, <<"-","-"," ","@","n","o","t","e"," ","N">>, <<"-","-"," ","@","u","n","k","n","o","w","n"," ","f","o","o">>,
      <<"-","-"," ","\\","c","o","d","e"," ","x"," ","="," ","1">>, <<"-","-"," ","\\","f","o","o"," ","b","a","r">>, <<"-","-"," ","@","n","o","t","e","\f","N">> }
\* an @param line with fewer than two tokens
ShortParamLines == { <<"-","-"," ","@","p","a","r","a","m"," ","z">> }

DocPool == BriefLines \cup ParamLines \cup ReturnLines \cup OtherDocLines
           \cup ShortParamLines

InitDoc ==
    /\ buf \in UNION { [1..k -> DocPool] : k \in 0..MaxBuf }
    /\ doc = None
    /\ fblock = EmptyDocBlock
    /\ rendered = None
    /\ pc = "build"
    /\ lines = <<>>
    /\ line_buf = <<>>
    /\ doc_blocks = <<>>
    /\ real_code_line = <<>>
    /\ is_mutli_line_function_decl = FALSE
    /\ sc = ScanInit(<<>>)
    /\ scan_result = None
    /\ sig = <<>>
    /\ cls = None

BuildDoc ==
    /\ pc = "build"
    /\ doc' = Some(CreateDocblock(buf))
    /\ pc' = "built"
    /\ UNCHANGED <<buf, parseVars, scanVars, classVars, fmtVars>>

NextDoc == BuildDoc

SpecDoc == InitDoc /\ [][NextDoc]_vars


(***************************************************************************)
(* MarkdownFormatter (file_parser.rs:610-734).                             *)
(***************************************************************************)
\* the grave accent U+0060 of a Markdown code fence, which a TLA+ string cannot hold
Backtick == "U+0060"

\* InputFileType::to_str(...).unwrap_or("")
LangStr(lang) ==
    CASE lang = "Lua" -> <<"l","u","a">>
      [] lang = "C" -> <<"c">>
      [] lang = "Cpp" -> <<"c","p","p">>
      [] lang = "Rust" -> <<"r","s">>
      [] lang = "Python" -> <<"p","y">>
      [] lang = "None" -> <<"N","o","n","e">>

\* format!: a code fence tagged lua around the signature
FormatSignature(signature) == <<Backtick,Backtick,Backtick,"l","u","a","\n">> \o signature \o <<"\n",Backtick,Backtick,Backtick,"\n">>

FormatIncludes(includes) ==
    IF includes = <<>> THEN <<>>
    ELSE <<"*","*","I","n","c","l","u","d","e","s",":","*","*"," ">> \o Join(includes, <<","," ">>) \o <<"\n","\n">>

FormatBrief(brief) ==
    IF brief = <<>> THEN <<>>
    ELSE <<"*","*","B","r","i","e","f",":","*","*"," ">> \o brief \o <<"\n","\n">>

\* writeln!(s, "- {} ({}): {}", p.name, p.type_name, p.description)
FormatParameterLine(p) ==
    <<"-"," ">> \o p.name \o <<" ","(">> \o p.type_name \o <<")",":"," ">> \o p.description \o <<"\n">>

FormatParameters(params) ==
    IF params = <<>> THEN <<>>
    ELSE <<"*","*","P","a","r","a","m","e","t","e","r","s",":","*","*","\n">>
         \o Concat([k \in 1..Len(params) |-> FormatParameterLine(params[k])])
         \o <<"\n">>

FormatReturn(ret) ==
    IF IsSome(ret)
    THEN <<"*","*","R","e","t","u","r","n","s",":","*","*"," ">> \o Unwrap(ret).name \o <<" ","(">> \o Unwrap(ret).type_name
         \o <<")",":"," ">> \o Unwrap(ret).description \o <<"\n","\n">>
    ELSE <<>>

FormatDescriptionItem(desc) ==
    CASE desc.dtype.kind = "Text" -> desc.content \o <<"\n">>
      [] desc.dtype.kind = "Code" ->
           <<Backtick,Backtick,Backtick>> \o LangStr(desc.dtype.lang) \o <<"\n">> \o desc.content \o <<"\n",Backtick,Backtick,Backtick,"\n">>
      [] desc.dtype.kind = "MathFormula" ->
           IF desc.dtype.ftype = "Inline"
           THEN <<"$">> \o desc.content \o <<"$","\n">>
           ELSE <<"$","$","\n">> \o desc.content \o <<"\n","$","$","\n">>
      [] desc.dtype.kind = "BulletList" ->
           LET content == Trim(desc.content)
               prefix == IF StartsWith(content, <<"-">>) THEN <<>> ELSE <<"-"," ">>
           IN  prefix \o content \o <<"\n">>
      [] desc.dtype.kind = "HTMLLink" ->
           <<"[">> \o desc.content \o <<"]","(">> \o desc.content \o <<")","\n">>

FormatDescriptions(descriptions) ==
    IF descriptions = <<>> THEN <<>>
    ELSE <<"*","*","D","e","s","c","r","i","p","t","i","o","n",":","*","*","\n","\n">>
         \o Concat([k \in 1..Len(descriptions) |->
                       FormatDescriptionItem(descriptions[k])])
         \o <<"\n">>

\* format_block: the sections are pushed one after another
FormatBlock(block) ==
    FormatSignature(block.signature)
    \o FormatIncludes(block.includes)
    \o FormatBrief(block.brief)
    \o FormatParameters(block.parameters)
    \o FormatReturn(block.ret_value)
    \o FormatDescriptions(block.descriptions)

\* the blocks handed to format_block: every field empty or not
FmtSignatures == { <<>>, <<"f","u","n","c","t","i","o","n"," ","f","(",")">> }
FmtIncludes == { <<>>, << <<"a",".","l","u","a">>, <<"b",".","l","u","a">> >> }
FmtBriefs == { <<>>, <<"B">> }
FmtParameters ==
    { <<>>,
      << [name |-> <<"x">>, type_name |-> <<"n","u","m","b","e","r">>, number |-> 0, description |-> <<"d"," ","e">>],
         [name |-> <<"y">>, type_name |-> <<"T">>, number |-> 1, description |-> <<>>] >> }
FmtReturns ==
    { None,
      Some([name |-> <<>>, type_name |-> <<"n","u","m","b","e","r">>, number |-> 0, description |-> <<"r">>]) }
FmtItems ==
    { [dtype |-> [kind |-> "Text", body |-> <<"t">>], content |-> <<"t">>],
      [dtype |-> [kind |-> "Code", lang |-> "None", body |-> <<"c">>], content |-> <<"c">>],
      [dtype |-> [kind |-> "Code", lang |-> "Lua", body |-> <<"c">>], content |-> <<"c">>],
      [dtype |-> [kind |-> "MathFormula", ftype |-> "Inline", body |-> <<"m">>], content |-> <<"m">>],
      [dtype |-> [kind |-> "MathFormula", ftype |-> "Block", body |-> <<"m">>], content |-> <<"m">>],
      [dtype |-> [kind |-> "BulletList", level |-> 0, body |-> <<" ","i"," ">>], content |-> <<" ","i"," ">>],
      [dtype |-> [kind |-> "BulletList", level |-> 0, body |-> <<"-"," ","i">>], content |-> <<"-"," ","i">>],
      [dtype |-> [kind |-> "HTMLLink", body |-> <<"u">>], content |-> <<"u">>] }
FmtDescriptions ==
    { <<>> } \cup { <<d>> : d \in FmtItems }
    \cup { << [dtype |-> [kind |-> "Text", body |-> <<"t">>], content |-> <<"t">>],
              [dtype |-> [kind |-> "HTMLLink", body |-> <<"u">>], content |-> <<"u">>] >> }
FmtBlocks ==
    { [EmptyDocBlock EXCEPT !.signature = s, !.includes = i, !.brief = b,
                            !.parameters = p, !.ret_value = r, !.descriptions = d] :
        s \in FmtSignatures, i \in FmtIncludes, b \in FmtBriefs,
        p \in FmtParameters, r \in FmtReturns, d \in FmtDescriptions }

InitFormat ==
    /\ fblock \in FmtBlocks
    /\ rendered = None
    /\ pc = "format"
    /\ lines = <<>>
    /\ line_buf = <<>>
    /\ doc_blocks = <<>>
    /\ real_code_line = <<>>
    /\ is_mutli_line_function_decl = FALSE
    /\ sc = ScanInit(<<>>)
    /\ scan_result = None
    /\ sig = <<>>
    /\ cls = None
    /\ buf = <<>>
    /\ doc = None

FormatBlockCall ==
    /\ pc = "format"
    /\ rendered' = Some(FormatBlock(fblock))
    /\ pc' = "formatted"
    /\ UNCHANGED <<fblock, parseVars, scanVars, classVars, docVars>>

NextFormat == FormatBlockCall

SpecFormat == InitFormat /\ [][NextFormat]_vars
(***************************************************************************)
(* Properties of parse (checked under Spec).                               *)
(***************************************************************************)
Last(s) == s[Len(s)]

\* line j..k of ls are comment lines and line j carries a doc marker
InDocRun(ls, j, k) ==
    /\ IsDocComment(ls[j])
    /\ \A m \in j..k : IsComment(ls[m])
\* a documentation run ends at line k
HasDocRun(ls, k) == \E j \in 1..k : InDocRun(ls, j, k)
DocRunStart(ls, k) == Min({j \in 1..k : InDocRun(ls, j, k)})
DocRun(ls, k) == SubSeq(ls, DocRunStart(ls, k), k)

\* a line that declares a function: the keyword and a parameter list
IsDeclLine(l) ==
    /\ ~IsComment(l)
    /\ \/ StartsWith(TrimStart(l), <<"f","u","n","c","t","i","o","n">>)
       \/ StartsWith(TrimStart(l), <<"l","o","c","a","l"," ","f","u","n","c","t","i","o","n">>)
    /\ ContainsChar(l, "(")
\* the declaration that starts at line k ends at the first line with ')'
DeclEnds(ls, k) == \E m \in k..Len(ls) : ContainsChar(ls[m], ")")
DeclEnd(ls, k) == Min({m \in k..Len(ls) : ContainsChar(ls[m], ")")})
DeclText(ls, k) ==
    Concat([m \in 1..(DeclEnd(ls, k) - k + 1) |-> RemoveAnnotation(ls[k + m - 1])])

\* line k starts a documented declaration: a declaration immediately preceded
\* by a documentation run
IsDocumentedDecl(ls, k) ==
    /\ k > 1
    /\ IsDeclLine(ls[k])
    /\ DeclEnds(ls, k)
    /\ HasDocRun(ls, k - 1)

RECURSIVE SortedSeq(_)
SortedSeq(S) == IF S = {} THEN <<>> ELSE <<Min(S)>> \o SortedSeq(S \ {Min(S)})
DocumentedDecls(ls) == SortedSeq({k \in 1..Len(ls) : IsDocumentedDecl(ls, k)})

\* the fields of a DocBlock that come from its comment run
DocFields(b) ==
    <<b.brief, b.note, b.includes, b.parameters, b.descriptions, b.ret_value>>

\* C1 (as claimed): a file with N documented declarations yields exactly N
\* Documents, the k-th built from the k-th documented declaration's comment run
\* and carrying the k-th declaration as its signature.
C1_OrderPreservation ==
    pc = "done" =>
        LET D == DocumentedDecls(lines)
        IN  /\ Len(doc_blocks) = Len(D)
            /\ \A k \in 1..Len(D) :
                 /\ doc_blocks[k].signature = DeclText(lines, D[k])
                 /\ DocFields(doc_blocks[k])
                      = DocFields(CreateDocblock(DocRun(lines, D[k] - 1)))

\* the example of the blank-line reset
BlankResetExample == << <<"-","-"," ","@","b","r","i","e","f"," ","X">>, <<>>, <<"f","u","n","c","t","i","o","n"," ","f","(",")"," ","e","n","d">> >>

\* lines end with a documentation run, a blank line and a declaration line
IsBlankResetFile(ls) ==
    /\ Len(ls) >= 3
    /\ HasDocRun(ls, Len(ls) - 2)
    /\ IsSpaceLine(ls[Len(ls) - 1])
    /\ IsDeclLine(ls[Len(ls)])

\* C2 (as claimed): a documentation run, a blank line, then a declaration
\* yields one Document with that declaration as signature and empty
\* documentation fields; the example yields one Document with signature
\* "function f() end" and brief "".
C2_BlankResetOneDocument ==
    (/\ pc = "done"
     /\ IsBlankResetFile(lines)
     /\ DocRunStart(lines, Len(lines) - 2) = 1
     /\ DeclEnds(lines, Len(lines))) =>
        /\ Len(doc_blocks) = 1
        /\ doc_blocks[1].signature = RemoveAnnotation(Last(lines))
        /\ DocFields(doc_blocks[1]) = DocFields(EmptyDocBlock)

\* C2 (amended): the declaration line that follows the blank line emits no
\* Document (the buffer is empty, and parse documents no declaration without
\* a buffer); the example file yields the empty Document sequence.
C2_BlankResetNoDocument ==
    /\ [][(IsBlankResetFile(lines') /\ lines' # lines)
            => (doc_blocks' = doc_blocks /\ line_buf' = <<>> /\ pc' = "reading")]_vars
    /\ []((pc = "done" /\ lines = BlankResetExample) => doc_blocks = <<>>)

\* C2 witness: the example file has been read to its end
C2_Witness == pc = "done" /\ lines = BlankResetExample /\ doc_blocks = <<>>

\* C7: every emitted Document with is_local has an empty owner_object and is
\* not a member, and every emitted signature that starts with "local function"
\* has is_local.
C7_LocalInvariant ==
    \A k \in 1..Len(doc_blocks) :
        LET b == doc_blocks[k]
        IN  /\ b.is_local => (b.owner_object = <<>> /\ ~b.is_member)
            /\ StartsWith(Trim(b.signature), <<"l","o","c","a","l"," ","f","u","n","c","t","i","o","n">>) => b.is_local

\* C7 witness: a Document for a local function has been emitted
C7_Witness ==
    \E k \in 1..Len(doc_blocks) :
        /\ doc_blocks[k].is_local
        /\ StartsWith(Trim(doc_blocks[k].signature), <<"l","o","c","a","l"," ","f","u","n","c","t","i","o","n">>)

\* C10 (as claimed): no input drives parse into a panic.
C10_NoPanic == pc # "panic"

(***************************************************************************)
(* Properties of remove_annotation (checked under SpecScan).               *)
(*                                                                         *)
(* The lexical structure of a line is stated here on its own, from the     *)
(* rules of Lua strings and comments, with one-based positions.            *)
(***************************************************************************)
\* the number of '=' that start at position p
RefEqRun(line, p) ==
    Max({k \in 0..(Len(line) - p + 1) : \A m \in p..(p + k - 1) : line[m] = "="})

\* a long-bracket opener starts at p: Some(its level) or None
RefOpenerAt(line, p) ==
    LET e == RefEqRun(line, p + 1)
    IN  IF /\ p <= Len(line) /\ line[p] = "["
           /\ p + 1 + e <= Len(line) /\ line[p + 1 + e] = "["
        THEN Some(e) ELSE None

\* a long-bracket closer of level lv starts at p
RefCloserAt(line, p, lv) ==
    /\ p <= Len(line) /\ line[p] = "]"
    /\ RefEqRun(line, p + 1) = lv
    /\ p + 1 + lv <= Len(line) /\ line[p + 1 + lv] = "]"

Repeat(x, n) == [k \in 1..n |-> x]

\* the mode in which each character is read, and the mode at the end of the
\* line: "N" code, "S" and "D" inside a quoted string (its closing quote
\* included), "L" inside a long string, "C" from the first "--" read as code
RECURSIVE RefLex(_, _, _, _, _)
RefLex(line, p, mode, lv, acc) ==
    LET n == Len(line)
        c == line[p]
        open == RefOpenerAt(line, p)
    IN  IF p > n THEN Append(acc, mode)
        ELSE IF mode \in {"S", "D"}
        THEN IF c = "\\" /\ p < n
             THEN RefLex(line, p + 2, mode, lv, acc \o <<mode, mode>>)
             ELSE IF (mode = "S" /\ c = "'") \/ (mode = "D" /\ c = "\"")
             THEN RefLex(line, p + 1, "N", lv, Append(acc, mode))
             ELSE RefLex(line, p + 1, mode, lv, Append(acc, mode))
        ELSE IF mode = "L"
        THEN IF RefCloserAt(line, p, lv)
             THEN RefLex(line, p + lv + 2, "N", lv, acc \o Repeat("L", lv + 2))
             ELSE RefLex(line, p + 1, "L", lv, Append(acc, "L"))
        ELSE IF c = "'" THEN RefLex(line, p + 1, "S", lv, Append(acc, "N"))
        ELSE IF c = "\"" THEN RefLex(line, p + 1, "D", lv, Append(acc, "N"))
        ELSE IF IsSome(open)
        THEN RefLex(line, p + Unwrap(open) + 2, "L", Unwrap(open),
                    acc \o Repeat("N", Unwrap(open) + 2))
        ELSE IF c = "-" /\ p < n /\ line[p + 1] = "-"
        THEN acc \o Repeat("C", n - p + 2)
        ELSE RefLex(line, p + 1, "N", lv, Append(acc, "N"))

RefModes(line) == RefLex(line, 1, "N", 0, <<>>)

\* the positions at which "--" occurs
DashDashAt(line) == {p \in 1..(Len(line) - 1) : line[p] = "-" /\ line[p + 1] = "-"}

\* every "--" of the line lies inside a quoted string closed on the line
DashesQuoted(line) ==
    LET modes == RefModes(line)
    IN  \A p \in DashDashAt(line) :
            /\ modes[p] \in {"S", "D"}
            /\ modes[p + 1] = modes[p]
            /\ \E q \in (p + 2)..(Len(line) + 1) : modes[q] # modes[p]

\* C3: a line whose every "--" lies inside a closed single- or double-quoted
\* string is returned unchanged, apart from the trimming of its ends.
C3_QuoteAwareness ==
    (pc = "scanned" /\ DashesQuoted(sc.chars)) =>
        scan_result = Some(Trim(sc.chars))

\* C3 witness: the documented line, with "--" in quotes, has been scanned
C3_Witness ==
    /\ pc = "scanned"
    /\ sc.chars = <<"l","o","c","a","l"," ","s"," ","="," ","'","-","-","n","o","t"," ","a"," ","c","o","m","m","e","n","t","'">>
    /\ DashDashAt(sc.chars) # {}
    /\ DashesQuoted(sc.chars)
    /\ scan_result = Some(sc.chars)

\* the scanner is outside quotes and long strings, at a "--"
AtCommentStart(st) ==
    /\ ScanRunning(st)
    /\ ~st.in_squote /\ ~st.in_dquote /\ ~IsSome(st.in_longstring_level)
    /\ st.i + 1 \in DashDashAt(st.chars)

\* the one-based position of the first closer of level lv at or after p, if any
RefClosers(line, p, lv) == {q \in p..Len(line) : RefCloserAt(line, q, lv)}

\* the "--" at one-based position p opens a block comment closed on the line
IsClosedBlockComment(line, p) ==
    LET open == RefOpenerAt(line, p + 2)
    IN  /\ IsSome(open)
        /\ RefClosers(line, p + 4 + Unwrap(open), Unwrap(open)) # {}
\* the one-based position of the last character of that comment
BlockCommentEnd(line, p) ==
    LET lv == Unwrap(RefOpenerAt(line, p + 2))
    IN  Min(RefClosers(line, p + 4 + lv, lv)) + lv + 1

\* C4: at a "--" in Normal mode followed by a long-bracket opener whose closer
\* of the same level occurs later on the line, the scanner drops exactly the
\* text from "--" through the first such closer and goes on right after it;
\* a line whose only "--" starts such a comment keeps the code on both sides,
\* and "x = 1 --[[ inline ]] y = 2" becomes "x = 1  y = 2".
C4_SameLineBlockComment ==
    /\ [][(AtCommentStart(sc) /\ IsClosedBlockComment(sc.chars, sc.i + 1) /\ sc' # sc)
            => sc' = [sc EXCEPT !.i = BlockCommentEnd(sc.chars, sc.i + 1)]]_vars
    /\ [](pc = "scanned" =>
            \A p \in DashDashAt(sc.chars) :
                (/\ DashDashAt(sc.chars) = {p}
                 /\ RefModes(sc.chars)[p] = "C"
                 /\ IsClosedBlockComment(sc.chars, p)) =>
                    scan_result = Some(Trim(
                        SubSeq(sc.chars, 1, p - 1)
                        \o SubSeq(sc.chars, BlockCommentEnd(sc.chars, p) + 1,
                                  Len(sc.chars)))))
    /\ []((pc = "scanned" /\ sc.chars = <<"x"," ","="," ","1"," ","-","-","[","["," ","i","n","l","i","n","e"," ","]","]"," ","y"," ","="," ","2">>)
            => scan_result = Some(<<"x"," ","="," ","1"," "," ","y"," ","="," ","2">>))

\* C4 witness: the documented line has been scanned
C4_Witness ==
    /\ pc = "scanned"
    /\ sc.chars = <<"x"," ","="," ","1"," ","-","-","[","["," ","i","n","l","i","n","e"," ","]","]"," ","y"," ","="," ","2">>
    /\ IsClosedBlockComment(sc.chars, 7)
    /\ scan_result = Some(<<"x"," ","="," ","1"," "," ","y"," ","="," ","2">>)

\* the one-based position of the first "--" read as code, if any
FirstComment(line) == {p \in 1..Len(line) : RefModes(line)[p] = "C"}

\* C5: at a "--" in Normal mode followed by no long-bracket opener, or by an
\* opener whose level has no closer on the rest of the line (closers of other
\* levels do not count), the scan stops and the result is the trimmed text kept
\* so far; when that "--" is the first one outside strings, the result is
\* exactly the trimmed text of the line before it.
C5_UnterminatedComment ==
    /\ [][(AtCommentStart(sc) /\ ~IsClosedBlockComment(sc.chars, sc.i + 1) /\ sc' # sc)
            => sc' = [sc EXCEPT !.stopped = TRUE]]_vars
    /\ []((pc = "scanned" /\ sc.stopped) => scan_result = Some(Trim(sc.out)))
    /\ []((pc = "scanned" /\ FirstComment(sc.chars) # {}) =>
            LET p == Min(FirstComment(sc.chars))
            IN  ~IsClosedBlockComment(sc.chars, p) =>
                    scan_result = Some(Trim(SubSeq(sc.chars, 1, p - 1))))

\* C5 witness: a block comment whose only closer has another level, scanned
C5_Witness ==
    /\ pc = "scanned"
    /\ sc.chars = <<"a"," ","-","-","[","["," ","b"," ","]","=","]"," ","c">>
    /\ IsSome(RefOpenerAt(sc.chars, 5))
    /\ ~IsClosedBlockComment(sc.chars, 3)
    /\ scan_result = Some(<<"a">>)

(***************************************************************************)
(* Properties of the classifier (checked under SpecClassify).              *)
(***************************************************************************)
\* the signature is written "function Owner<sep>name(p1, ..., pn) end"
IsDeclForm(s, sep) ==
    /\ s.prefix = <<"f","u","n","c","t","i","o","n"," ">>
    /\ s.owner # <<>>
    /\ s.sep = sep
    /\ s.name # <<>>
    /\ \E ps \in SigParamLists : s.params = ParamsText(ps)
    /\ s.suffix = <<" ","e","n","d">>
\* the parameters of such a signature
ParamsOf(s) == CHOOSE ps \in SigParamLists : s.params = ParamsText(ps)

\* C6: "function Owner:name(params) end" is classified with owner_object =
\* Owner and is_member = true; "function Owner.name(p1, p2, ...) end" whose
\* first parameter differs from Owner is classified with owner_object = Owner
\* and is_member = false.  The functions give this for every Owner; the block
\* parse emits carries it for every Owner that is not the keyword local.
C6_MemberClassification ==
    (pc = "classified" /\ (IsDeclForm(sig, <<":">>) \/ IsDeclForm(sig, <<".">>))) =>
        LET c == Unwrap(cls)
            member == IsDeclForm(sig, <<":">>)
            covered == member \/ (ParamsOf(sig) # <<>> /\ ParamsOf(sig)[1] # sig.owner)
        IN  covered =>
              /\ c.owner_object = sig.owner
              /\ c.member = [panic |-> FALSE, value |-> member]
              /\ sig.owner # <<"l","o","c","a","l">> =>
                   /\ IsSome(c.block)
                   /\ Unwrap(c.block).owner_object = sig.owner
                   /\ Unwrap(c.block).is_member = member

\* C6 witness: a dot-syntax signature whose first parameter is not the owner
\* has been classified
C6_Witness ==
    /\ pc = "classified"
    /\ SigText(sig) = <<"f","u","n","c","t","i","o","n"," ","O","b","j",".","m","e","t","h","o","d","(","a",","," ","b",")"," ","e","n","d">>
    /\ IsDeclForm(sig, <<".">>)
    /\ Unwrap(cls).owner_object = <<"O","b","j">>
    /\ ~Unwrap(cls).member.value

(***************************************************************************)
(* Properties of create_docblock (checked under SpecDoc).                  *)
(***************************************************************************)
BriefOf(line) == CHOOSE r \in BriefForms : BriefLine(r) = line
ParamOf(line) == CHOOSE r \in ParamForms : ParamLine(r) = line
ReturnOf(line) == CHOOSE r \in ReturnForms : ReturnLine(r) = line

\* the positions of the buffer that hold a line of the set ls
LinesIn(b, ls) == {k \in 1..Len(b) : b[k] \in ls}

\* one @brief line, one @return line, @param lines with a name and a type,
\* and lines of other tags
IsTagForm(b) ==
    /\ Cardinality(LinesIn(b, BriefLines)) = 1
    /\ Cardinality(LinesIn(b, ReturnLines)) = 1
    /\ \A k \in 1..Len(b) :
         b[k] \in BriefLines \cup ReturnLines \cup ParamLines \cup OtherDocLines

\* C8: from a buffer with one "@brief B" line, "@param name type words..."
\* lines and one "@return type words..." line, create_docblock gives brief = B
\* trimmed, one Parameter per @param line in line order with that name, type
\* and the words joined by single spaces, and a return value with empty name,
\* that type and the words joined by single spaces.
C8_TagParsing ==
    (pc = "built" /\ IsTagForm(buf)) =>
        LET d == Unwrap(doc)
            ps == SortedSeq(LinesIn(buf, ParamLines))
            b == BriefOf(buf[Min(LinesIn(buf, BriefLines))])
            r == ReturnOf(buf[Min(LinesIn(buf, ReturnLines))])
        IN  /\ d.brief = b.brief
            /\ Len(d.parameters) = Len(ps)
            /\ \A i \in 1..Len(ps) :
                 /\ d.parameters[i].name = ParamOf(buf[ps[i]]).name
                 /\ d.parameters[i].type_name = ParamOf(buf[ps[i]]).type_name
                 /\ d.parameters[i].description = Join(ParamOf(buf[ps[i]]).words, <<" ">>)
            /\ IsSome(d.ret_value)
            /\ Unwrap(d.ret_value).name = <<>>
            /\ Unwrap(d.ret_value).type_name = r.type_name
            /\ Unwrap(d.ret_value).description = Join(r.words, <<" ">>)

\* C8 witness: the documented buffer has been parsed
C8_Witness ==
    /\ pc = "built"
    /\ buf = << <<"-","-"," ","@","b","r","i","e","f"," ","d","o","e","s"," ","a"," ","t","h","i","n","g">>, <<"-","-"," ","@","p","a","r","a","m"," ","x"," ","n","u","m","b","e","r"," ","t","h","e"," ","x"," ","v","a","l","u","e">>,
                <<"-","-"," ","@","r","e","t","u","r","n"," ","n","u","m","b","e","r"," ","t","h","e"," ","r","e","s","u","l","t">> >>
    /\ IsTagForm(buf)
    /\ Unwrap(doc).brief = <<"d","o","e","s"," ","a"," ","t","h","i","n","g">>
    /\ Len(Unwrap(doc).parameters) = 1

\* C9: in every Document built by create_docblock, parameters[i].number = i
\* (zero-based), whatever lines were ignored or interleaved.
C9_ParameterNumbers ==
    pc = "built" =>
        \A i \in 1..Len(Unwrap(doc).parameters) :
            Unwrap(doc).parameters[i].number = i - 1

\* C9 witness: two parameters built around an ignored @param line and another tag
C9_Witness ==
    /\ pc = "built"
    /\ LinesIn(buf, ShortParamLines) # {}
    /\ LinesIn(buf, OtherDocLines) # {}
    /\ Len(Unwrap(doc).parameters) = 2
    /\ Unwrap(doc).parameters[2].number = 1

(***************************************************************************)
(* Further properties of parse (checked under Spec).                       *)
(***************************************************************************)
\* the line opens a declaration: a function line with '(' that does not end
\* with ')'
IsOpenerLine(l) ==
    /\ ~IsComment(l)
    /\ IsFunctionStart(CodeContent[l])
    /\ ContainsChar(CodeContent[l], "(")
    /\ ~EndsWith(CodeContent[l], <<")">>)
\* the line ends an open declaration: it ends with ')' or "end", or holds ')'
IsTerminalCode(code) ==
    EndsWith(code, <<")">>) \/ EndsWith(TrimEnd(code), <<"e","n","d">>) \/ ContainsChar(code, ")")
\* a non-blank, non-comment line that does not start with a function keyword
IsPlainCodeLine(l) ==
    /\ ~IsSpaceLine(l)
    /\ ~IsComment(l)
    /\ ~IsFunctionStart(CodeContent[l])

\* a documented declaration opened at line k is still open at the end of ls:
\* no later line starts a function or ends the declaration
IsOpenTail(ls, k) ==
    /\ k > 1 /\ k <= Len(ls)
    /\ IsOpenerLine(ls[k])
    /\ HasDocRun(ls, k - 1)
    /\ \A m \in (k + 1)..Len(ls) :
         /\ ~IsFunctionStart(CodeContent[ls[m]])
         /\ ~IsTerminalCode(CodeContent[ls[m]])
HasOpenTail(ls) == \E k \in 1..Len(ls) : IsOpenTail(ls, k)

\* C11: while a documented declaration is open and unterminated, no line emits
\* a Document, and the end of the file emits none either: parse returns
\* normally with the Documents finalized before the declaration.
C11_UnterminatedAtEof ==
    /\ [][(HasOpenTail(lines') /\ lines' # lines)
            => (doc_blocks' = doc_blocks /\ pc' = "reading")]_vars
    /\ [][(pc' = "done" /\ pc # "done")
            => (pc = "reading" /\ doc_blocks' = doc_blocks)]_vars

\* C11 witness: a file that ends inside its second documented declaration has
\* been read to its end, with the first declaration's Document only
C11_Witness ==
    /\ pc = "done"
    /\ lines = << <<"-","-"," ","@","b","r","i","e","f"," ","X">>, <<"f","u","n","c","t","i","o","n"," ","f","(",")">>, <<"-","-"," ","@","b","r","i","e","f"," ","X">>, <<"f","u","n","c","t","i","o","n"," ","f","(","a",",">> >>
    /\ IsOpenTail(lines, 4)
    /\ Len(doc_blocks) = 1
    /\ doc_blocks[1].signature = <<"f","u","n","c","t","i","o","n"," ","f","(",")">>

(***************************************************************************)
(* Properties of the renderer (checked under SpecFormat).                  *)
(***************************************************************************)
\* the text each section stands for when its field is not empty
SectionTexts(block) ==
    << FormatSignature(block.signature), FormatIncludes(block.includes),
       FormatBrief(block.brief), FormatParameters(block.parameters),
       FormatReturn(block.ret_value), FormatDescriptions(block.descriptions) >>
\* whether the source field of section k is empty
SectionFieldEmpty(block, k) ==
    CASE k = 1 -> block.signature = <<>>
      [] k = 2 -> block.includes = <<>>
      [] k = 3 -> block.brief = <<>>
      [] k = 4 -> block.parameters = <<>>
      [] k = 5 -> block.ret_value = None
      [] k = 6 -> block.descriptions = <<>>
\* the sections of the block in the fixed order, an empty field giving an
\* empty string
OmittingSections(block) ==
    [k \in 1..6 |-> IF SectionFieldEmpty(block, k) THEN <<>>
                    ELSE SectionTexts(block)[k]]

\* C12: format_block returns the six sections in the order signature,
\* includes, brief, parameters, returns, description, and each section is the
\* empty string when its source field is empty.
C12_SectionOrderAndOmission ==
    pc = "formatted" => rendered = Some(Concat(OmittingSections(fblock)))

(***************************************************************************)
(* Further properties of parse (checked under Spec), continued.            *)
(***************************************************************************)
\* a comment line that does not begin with a documentation marker
IsStrayComment(l) == IsComment(l) /\ ~IsDocComment(l)

\* C13: a comment line without a documentation marker is appended to line_buf
\* only if line_buf is not empty; read with an empty line_buf it leaves it
\* empty; so the first element of a non-empty line_buf is a documentation line.
C13_StrayComment ==
    /\ [][(lines' # lines /\ IsStrayComment(Last(lines')))
            => /\ line_buf # <<>> => line_buf' = Append(line_buf, Last(lines'))
               /\ line_buf = <<>> => line_buf' = <<>>]_vars
    /\ [](line_buf # <<>> => IsDocComment(line_buf[1]))

\* C13 witness: a stray comment was read with an empty buffer and left it
\* empty, and a second one was appended after a documentation line
C13_Witness ==
    /\ lines = << <<"-","-"," ","n","o","t","e">>, <<"-","-"," ","@","b","r","i","e","f"," ","X">>, <<"-","-"," ","n","o","t","e">> >>
    /\ IsStrayComment(lines[1])
    /\ line_buf = << <<"-","-"," ","@","b","r","i","e","f"," ","X">>, <<"-","-"," ","n","o","t","e">> >>

\* the step reads a plain code line that directly follows a documentation run
ReadsCodeAfterDocRun ==
    /\ lines' # lines
    /\ Len(lines) >= 1
    /\ HasDocRun(lines, Len(lines))
    /\ IsPlainCodeLine(Last(lines'))
\* a step that emits a Document takes its documentation from line_buf
EmitsFromBuffer ==
    doc_blocks' # doc_blocks =>
        /\ doc_blocks' = Append(doc_blocks, Last(doc_blocks'))
        /\ DocFields(Last(doc_blocks')) = DocFields(CreateDocblock(line_buf))

\* C14 (as claimed): whatever lines preceded the run, the plain code line that
\* follows a documentation run clears line_buf and emits nothing, so the run
\* reaches no later Document.
C14_DiscardedRun ==
    [][ReadsCodeAfterDocRun
         => (line_buf' = <<>> /\ doc_blocks' = doc_blocks)]_vars

\* C14 (amended): the same, for a plain code line read while no multi-line
\* declaration is open; every Document takes its documentation from line_buf
\* as it is when the Document is emitted, so the cleared run reaches none.
C14_DiscardedRunOutsideDecl ==
    /\ [][(ReadsCodeAfterDocRun /\ ~is_mutli_line_function_decl)
            => (line_buf' = <<>> /\ doc_blocks' = doc_blocks
                /\ pc' = "reading")]_vars
    /\ [][EmitsFromBuffer]_vars
    /\ []((pc = "done" /\ lines = << <<"-","-"," ","@","b","r","i","e","f"," ","X">>, <<"x"," ","="," ","1">>, <<"f","u","n","c","t","i","o","n"," ","f","(",")">> >>)
            => doc_blocks = <<>>)

\* C14 witness: a documentation run was followed by a plain code line outside
\* any declaration, then by a declaration, and the file yields no Document
C14_Witness ==
    /\ pc = "done"
    /\ lines = << <<"-","-"," ","@","b","r","i","e","f"," ","X">>, <<"x"," ","="," ","1">>, <<"f","u","n","c","t","i","o","n"," ","f","(",")">> >>
    /\ HasDocRun(lines, 1) /\ IsPlainCodeLine(lines[2])
    /\ ~is_mutli_line_function_decl
    /\ doc_blocks = <<>>

\* the index of the last blank line of ls, 0 if there is none
LastBlank(ls) == Max({0} \cup {k \in 1..Len(ls) : IsSpaceLine(ls[k])})
\* s is made of elements of t, in the order of t
RECURSIVE IsSubseqOf(_, _)
IsSubseqOf(s, t) ==
    IF s = <<>> THEN TRUE
    ELSE IF t = <<>> THEN FALSE
    ELSE IF Head(s) = Head(t) THEN IsSubseqOf(Tail(s), Tail(t))
    ELSE IsSubseqOf(s, Tail(t))
\* the comment lines read since the last blank line
RECURSIVE CommentsOf(_)
CommentsOf(ls) ==
    IF ls = <<>> THEN <<>>
    ELSE (IF IsComment(Head(ls)) THEN <<Head(ls)>> ELSE <<>>) \o CommentsOf(Tail(ls))
CommentsSinceBlank(ls) == CommentsOf(SubSeq(ls, LastBlank(ls) + 1, Len(ls)))

\* C15: reading a blank line leaves line_buf and real_code_line empty and
\* emits nothing, in any state; line_buf holds only comment lines read after
\* the last blank line, and a Document takes its documentation from line_buf,
\* so no Document holds documentation from before a blank line.
C15_BlankLineResets ==
    /\ [][(lines' # lines /\ IsSpaceLine(Last(lines')))
            => (line_buf' = <<>> /\ real_code_line' = <<>>
                /\ doc_blocks' = doc_blocks /\ pc' = "reading")]_vars
    /\ [](IsSubseqOf(line_buf, CommentsSinceBlank(lines)))
    /\ [][EmitsFromBuffer]_vars

\* C15 witness: a blank line was read while line_buf held a documentation
\* line and real_code_line an opened declaration
C15_Witness ==
    /\ lines = << <<"-","-"," ","@","b","r","i","e","f"," ","X">>, <<"f","u","n","c","t","i","o","n"," ","f","(","a",",">>, <<>> >>
    /\ IsSpaceLine(lines[3])
    /\ is_mutli_line_function_decl
    /\ line_buf = <<>>
    /\ real_code_line = <<>>
    /\ doc_blocks = <<>>

\* lines k..Len(ls) are a documented opening line, plain code lines that do
\* not end the declaration, and a last plain code line that ends it
IsClosedMultilineDecl(ls, k) ==
    /\ k > 1 /\ k < Len(ls)
    /\ IsOpenerLine(ls[k])
    /\ HasDocRun(ls, k - 1)
    /\ \A m \in (k + 1)..Len(ls) : IsPlainCodeLine(ls[m])
    /\ \A m \in (k + 1)..(Len(ls) - 1) : ~IsTerminalCode(CodeContent[ls[m]])
    /\ IsTerminalCode(CodeContent[Last(ls)])
\* the scanner output of lines k..Len(ls), concatenated
CodeFrom(ls, k) ==
    Concat([m \in 1..(Len(ls) - k + 1) |-> CodeContent[ls[k + m - 1]]])

\* C16 (as claimed): when the terminal line of a documented multi-line
\* declaration has been read, a Document has been emitted whose signature is
\* the scanner output of the opening line through the terminal line,
\* line_buf and real_code_line are empty and the multi-line flag is false.
C16_MultilineDeclaration ==
    \A k \in 1..Len(lines) :
        IsClosedMultilineDecl(lines, k) =>
            /\ pc # "panic"
            /\ doc_blocks # <<>>
            /\ Last(doc_blocks).signature = CodeFrom(lines, k)
            /\ line_buf = <<>>
            /\ real_code_line = <<>>
            /\ ~is_mutli_line_function_decl

\* C17 (as claimed): a declaration line with a parameter list whose code ends
\* with "end", read with a non-empty line_buf, is finalized on that line: a
\* Document with that line's code as signature is emitted, and line_buf and
\* real_code_line are empty before the next line.
C17_SingleLineWithBody ==
    (/\ Len(lines) >= 2
     /\ HasDocRun(lines, Len(lines) - 1)
     /\ IsDeclLine(Last(lines))
     /\ EndsWith(TrimEnd(RemoveAnnotation(Last(lines))), <<"e","n","d">>)) =>
        /\ doc_blocks # <<>>
        /\ Last(doc_blocks).signature = RemoveAnnotation(Last(lines))
        /\ line_buf = <<>>
        /\ real_code_line = <<>>

\* the signature starts with a function keyword
IsFunctionSignature(s) ==
    \/ StartsWith(Trim(s), <<"f","u","n","c","t","i","o","n">>)
    \/ StartsWith(Trim(s), <<"l","o","c","a","l"," ","f","u","n","c","t","i","o","n">>)

\* C20 (as claimed): a Document whose signature starts with neither function
\* nor local function has owner_object "", is_local false and is_member
\* false, whatever characters the signature holds.
C20_ClassifierDefault ==
    \A k \in 1..Len(doc_blocks) :
        ~IsFunctionSignature(doc_blocks[k].signature) =>
            /\ doc_blocks[k].owner_object = <<>>
            /\ ~doc_blocks[k].is_local
            /\ ~doc_blocks[k].is_member

(***************************************************************************)
(* Further properties of the classifier (checked under SpecClassify).      *)
(***************************************************************************)
\* C18 (as claimed): for "function Owner.name(params) end" without ':',
\* is_member is true exactly when there is a first parameter and it equals
\* Owner, whether it is the only parameter or not; with an empty parameter
\* list it is false.
C18_DotMemberRule ==
    (pc = "classified" /\ IsDeclForm(sig, <<".">>)) =>
        Unwrap(cls).member =
            [panic |-> FALSE,
             value |-> (ParamsOf(sig) # <<>> /\ Trim(ParamsOf(sig)[1]) = sig.owner)]

\* the owner the text of a function-level signature names: the text between
\* the keyword and the first '.' or ':' when no '(' comes before it
OwnerBeforeParen(text) ==
    LET s == TrimStart(SliceFrom(Trim(text), 8))
        sep == FindIn(s, OwnerSeparators)
        paren == FindChar(s, "(")
    IN  IF IsSome(sep) /\ (IsSome(paren) => Unwrap(sep) < Unwrap(paren))
        THEN Trim(Slice(s, 0, Unwrap(sep)))
        ELSE <<>>

\* C19 (as claimed): owner_object is the text between the keyword and the
\* first '.' or ':' only when that separator comes before the first '('; when
\* the name before '(' holds neither, owner_object is empty, even if '.' or
\* ':' occur later in the parameter list or the body.
C19_OwnerDerivation ==
    (/\ pc = "classified"
     /\ sig.prefix = <<"f","u","n","c","t","i","o","n"," ">>
     /\ sig.name # <<>>
     /\ (sig.owner = <<>>) <=> (sig.sep = <<>>)) =>
        Unwrap(cls).owner_object = OwnerBeforeParen(SigText(sig))

(***************************************************************************)
(* Further properties of create_docblock (checked under SpecDoc).          *)
(***************************************************************************)
\* the content of the line starts with '@' / with '\'
IsTagLine(line) == StartsWith(DocContent(line), <<"@">>)
IsSubTagLine(line) == ~IsTagLine(line) /\ StartsWith(DocContent(line), <<"\\">>)
\* the recognized sub-tags and the kind of item each one stands for
SubTagKind(subtag) ==
    CASE subtag = <<"t","e","x","t">> -> "Text"
      [] subtag = <<"c","o","d","e">> -> "Code"
      [] subtag = <<"f","o","r","m","u","l","a">> -> "MathFormula"
      [] subtag = <<"l","i","s","t">> -> "BulletList"
      [] subtag = <<"h","t","m","l">> -> "HTMLLink"
      [] OTHER -> "none"
\* line k of b is read in description mode: the last '@' line before it is
\* "@description"
InDescriptionMode(b, k) ==
    /\ \E j \in 1..(k - 1) : IsTagLine(b[j])
    /\ DocTag(DocContent(b[Max({j \in 1..(k - 1) : IsTagLine(b[j])})])) = <<"d","e","s","c","r","i","p","t","i","o","n">>
\* the positions of the lines that are accepted as description items
AcceptedLines(b) ==
    SortedSeq({k \in 1..Len(b) :
                 /\ IsSubTagLine(b[k])
                 /\ SubTagKind(DocTag(DocContent(b[k]))) # "none"
                 /\ InDescriptionMode(b, k)})

\* C21: the descriptions of the block are the lines whose content starts with
\* '\' and a recognized sub-tag and that are read while the last '@' line is
\* "@description", in the order of the buffer; every other '\' line appends
\* nothing.
C21_DescriptionMode ==
    pc = "built" =>
        LET A == AcceptedLines(buf)
            D == Unwrap(doc).descriptions
        IN  /\ Len(D) = Len(A)
            /\ \A n \in 1..Len(A) :
                 /\ D[n].dtype.kind = SubTagKind(DocTag(DocContent(buf[A[n]])))
                 /\ D[n].content = DocBody(DocContent(buf[A[n]]))
                 /\ D[n].dtype.body = D[n].content

\* C21 witness: a '\' line before "@description" was ignored, two after it
\* were accepted in order, and one after a later '@' line was ignored
C21_Witness ==
    /\ pc = "built"
    /\ buf = << <<"-","-"," ","\\","t","e","x","t"," ","h","e","l","l","o">>, <<"-","-"," ","@","d","e","s","c","r","i","p","t","i","o","n">>, <<"-","-"," ","\\","c","o","d","e"," ","x"," ","="," ","1">>, <<"-","-"," ","\\","t","e","x","t"," ","h","e","l","l","o">> >>
    /\ AcceptedLines(buf) = << 3, 4 >>
    /\ Len(Unwrap(doc).descriptions) = 2
    /\ Unwrap(doc).descriptions[1].dtype.kind = "Code"
    /\ Unwrap(doc).descriptions[2].content = <<"h","e","l","l","o">>

(***************************************************************************)
(* Further properties of remove_annotation (checked under SpecScan).       *)
(***************************************************************************)
\* the scanner is in Normal mode, about to read one more character
InNormalMode(st) ==
    /\ ScanRunning(st)
    /\ ~st.in_squote /\ ~st.in_dquote /\ ~IsSome(st.in_longstring_level)
\* the scanner is inside a long string, about to read one more character
InLongString(st) ==
    /\ ScanRunning(st)
    /\ ~st.in_squote /\ ~st.in_dquote /\ IsSome(st.in_longstring_level)
\* the scanner state after copying cnt characters and entering mode lv
CopyOf(st, cnt, lv) ==
    [st EXCEPT !.out = st.out \o SubSeq(st.chars, st.i + 1, st.i + cnt),
               !.i = st.i + cnt,
               !.in_longstring_level = lv]

\* C22: an opener of level L read in Normal mode is copied and opens a long
\* string of level L; inside it every character is copied unchanged, one at a
\* time, until a closer of exactly level L, which is copied and gives Normal
\* mode back; a "--" after that closer is a comment again.
C22_LongBracketStrings ==
    /\ [][(InNormalMode(sc) /\ IsSome(RefOpenerAt(sc.chars, sc.i + 1)) /\ sc' # sc)
            => LET L == Unwrap(RefOpenerAt(sc.chars, sc.i + 1))
               IN  sc' = CopyOf(sc, L + 2, Some(L))]_vars
    /\ [][(InLongString(sc) /\ sc' # sc)
            => LET L == Unwrap(sc.in_longstring_level)
               IN  IF RefCloserAt(sc.chars, sc.i + 1, L)
                   THEN sc' = CopyOf(sc, L + 2, None)
                   ELSE sc' = CopyOf(sc, 1, Some(L))]_vars
    /\ []((pc = "scan" /\ ScanRunning(sc) /\ RefModes(sc.chars)[sc.i + 1] # "C")
            => (IsSome(sc.in_longstring_level) <=> RefModes(sc.chars)[sc.i + 1] = "L"))
    /\ []((pc = "scanned" /\ sc.chars = <<"t"," ","="," ","[","=","=","["," ","-","-"," ","]","]"," ","]","=","=","]"," ","-","-"," ","c">>)
            => scan_result = Some(<<"t"," ","="," ","[","=","=","["," ","-","-"," ","]","]"," ","]","=","=","]">>))

\* C22 witness: a line with "--" and a closer of another level inside a long
\* string, and a comment after the string, has been scanned
C22_Witness ==
    /\ pc = "scanned"
    /\ sc.chars = <<"t"," ","="," ","[","=","=","["," ","-","-"," ","]","]"," ","]","=","=","]"," ","-","-"," ","c">>
    /\ RefOpenerAt(sc.chars, 5) = Some(2)
    /\ RefModes(sc.chars)[11] = "L"
    /\ RefModes(sc.chars)[21] = "C"
    /\ scan_result = Some(<<"t"," ","="," ","[","=","=","["," ","-","-"," ","]","]"," ","]","=","=","]">>)

\* C23: every iteration of the scan loop that does not stop the scan moves the
\* position forward, the position never passes the end of the line, the output
\* is made of characters of the part of the line already read, in their order,
\* and every scan returns: the result is made of characters of the line in
\* their order.
C23_ScannerTotality ==
    /\ [][(sc' # sc)
            => /\ sc'.chars = sc.chars
               /\ sc'.stopped \/ sc'.i > sc.i]_vars
    /\ [](sc.i >= 0 /\ sc.i <= Len(sc.chars))
    /\ [](IsSubseqOf(sc.out, SubSeq(sc.chars, 1, sc.i)))
    /\ [](pc = "scanned" =>
            /\ IsSome(scan_result)
            /\ IsSubseqOf(Unwrap(scan_result), sc.chars))
    /\ <>(pc = "scanned")

\* C23 witness: a line that ends with a backslash inside an open quote has been
\* scanned to its end
C23_Witness ==
    /\ pc = "scanned"
    /\ sc.chars = <<"a","'","\\">>
    /\ sc.in_squote
    /\ sc.i = Len(sc.chars)
    /\ scan_result = Some(sc.chars)

(***************************************************************************)
(* Further properties of parse (checked under Spec), continued.            *)
(***************************************************************************)
\* C24: at every line boundary (before the first line, after each line and at
\* the end of the file) a non-empty real_code_line implies that
\* is_mutli_line_function_decl is true.
C24_AccumulatorImpliesFlag ==
    pc \in {"reading", "done"} =>
        (real_code_line # <<>> => is_mutli_line_function_decl)

\* C24 witness: text is in the accumulator after an opening line, a comment
\* line and a continuation line, with the flag set
C24_Witness ==
    /\ pc = "reading"
    /\ lines = << <<"f","u","n","c","t","i","o","n"," ","f","(","a",",">>, <<"-","-"," ","@","b","r","i","e","f"," ","X">>, <<"x"," ","="," ","1">> >>
    /\ real_code_line = <<"f","u","n","c","t","i","o","n"," ","f","(","a",",","x"," ","="," ","1">>
    /\ is_mutli_line_function_decl

\* lines k..m of ls are one declaration: a function line, then lines that do
\* not start a function, the last of which is the first to end the declaration
\* (for m = k the function line itself ends it)
IsOneDeclaration(ls, k, m) ==
    /\ ~IsComment(ls[k]) /\ IsFunctionStart(CodeContent[ls[k]])
    /\ \A j \in (k + 1)..m : IsPlainCodeLine(ls[j])
    /\ \A j \in (k + 1)..(m - 1) : ~IsTerminalCode(CodeContent[ls[j]])
    /\ IF m = k THEN ~IsOpenerLine(ls[k]) ELSE IsOpenerLine(ls[k])
    /\ IsTerminalCode(CodeContent[ls[m]])
\* the text of that declaration
DeclarationText(ls, k, m) ==
    Concat([j \in 1..(m - k + 1) |-> CodeContent[ls[k + j - 1]]])

\* C25 (as claimed): the signature of every Document starts with a function
\* keyword and is the text of exactly one declaration of the file.
C25_OneDeclarationPerSignature ==
    \A d \in 1..Len(doc_blocks) :
        /\ IsFunctionSignature(doc_blocks[d].signature)
        /\ \E k \in 1..Len(lines) : \E m \in k..Len(lines) :
             /\ IsOneDeclaration(lines, k, m)
             /\ doc_blocks[d].signature = DeclarationText(lines, k, m)

(***************************************************************************)
(* Further properties of the classifier (checked under SpecClassify),      *)
(* continued.                                                              *)
(***************************************************************************)
\* C26 (as claimed): the Document of "function Owner<sep>name(params) end"
\* (not "local function") has is_local = false and owner_object = Owner,
\* whatever Owner is, the name local included.
C26_LocalOnlyForLocalFunction ==
    (/\ pc = "classified"
     /\ IsDeclForm(sig, <<".">>) \/ IsDeclForm(sig, <<":">>)
     /\ IsSome(Unwrap(cls).block)) =>
        /\ ~Unwrap(Unwrap(cls).block).is_local
        /\ Unwrap(Unwrap(cls).block).owner_object = sig.owner

====
